---- MODULE Spec2Model ----
(***************************************************************************)
(* Fraud detection worker (Microservices/FraudDetectionService/main.py):   *)
(* the RabbitMQ consumer callback, its Redis dedup/audit store, the cached *)
(* publishing connection and the three output queues.                      *)
(***************************************************************************)
EXTENDS Integers, Sequences, FiniteSets, TLC

\* ---- bounds of the model ------------------------------------------------
MaxDeliveries == 2
MaxFaults == 1
MaxRetries == 3
MaxElapses == 3

\* ---- program constants --------------------------------------------------
FraudThreshold == 1000
\* expiry of the dedup marker and of the audit record, and of the cached result (seconds)
MarkerTTL == 604800
AuditTTL == 604800
ResultTTL == 3600

TransferIds == {1, 2}
Times == 0..1
NoTransferId == 0

OutQueues == {"FraudEvents", "FraudResult", "FraudCheckResults"}

\* ---- inbound messages (JSON bodies on CheckFraud) -------------------------
Num(v) == [kind |-> "num", val |-> v]
NonNumeric == [kind |-> "str", val |-> 0]
Missing == [kind |-> "missing", val |-> 0]

NumericInputs == {Num(FraudThreshold), Num(FraudThreshold + 1)}
DelayedInputs == {"absent", "false", "true"}

\* well-formed requests, requests whose amount is absent or not a number, and
\* one body without transferId
Messages ==
    [transferId : TransferIds, amount : NumericInputs, isDelayed : DelayedInputs]
    \cup [transferId : TransferIds, amount : {NonNumeric, Missing}, isDelayed : {"absent"}]
    \cup {[transferId |-> NoTransferId, amount |-> Num(FraudThreshold), isDelayed |-> "absent"]}

NoMessage == [transferId |-> NoTransferId, amount |-> Missing, isDelayed |-> "absent"]

\* ---- values built by callback --------------------------------------------
NoTimestamp == [fmt |-> "none", t |-> 0]
NoTransaction ==
    [present |-> FALSE, transferId |-> NoTransferId, amount |-> Missing,
     timestamp |-> NoTimestamp, hasVerdict |-> FALSE, isFraud |-> FALSE, status |-> "none"]
NoResult ==
    [present |-> FALSE, transferId |-> NoTransferId, isFraud |-> FALSE, status |-> "none",
     amount |-> Missing, timestamp |-> NoTimestamp]

Ev(op) == [op |-> op, q |-> "-", ok |-> TRUE]
PubEv(q, ok) == [op |-> "publish", q |-> q, ok |-> ok]

InitCounters ==
    [messages_processed |-> 0, fraud_detections |-> 0, processing_errors |-> 0,
     duplicate_messages |-> 0, duplicate_fraud_checks |-> 0]

InitLocal ==
    [message |-> NoMessage, redelivered |-> FALSE, ch_open |-> TRUE,
     marked_before |-> FALSE, nth |-> 0, received |-> << >>,
     transaction_data |-> NoTransaction, result |-> NoResult,
     trace |-> << >>, outcome |-> "none", acks |-> 0, nacks |-> 0, requeue |-> FALSE,
     counters0 |-> InitCounters]

\* live: connections of this process that are open at the broker
InitPub == [connection |-> "none", channel |-> "none", live |-> 0]

GhostOps ==
    {"dedup_get", "mark", "audit_pre", "decision", "audit_post", "cache",
     "publish_events", "publish_result", "publish_delayed", "publish_immediate"}

FaultKinds == {"store", "crash", "consumer", "broker"}

VARIABLES
    pc,          \* per consumer instance: position inside callback
    local,       \* per consumer instance: callback's locals and the delivery's record
    pub,         \* per consumer instance: rabbitmq_connection / rabbitmq_channel globals
    counters,    \* per consumer instance: Prometheus counters
    redis,       \* the shared Redis store
    exists,      \* broker: declaration state of each output queue
    out,         \* broker: messages enqueued on each output queue
    requeued,    \* broker: unacknowledged messages awaiting redelivery
    delivered,   \* number of deliveries made from CheckFraud, redeliveries included
    faults,      \* number of environment faults injected so far, by kind
    now,         \* wall clock
    stepCount,   \* history: executions of each processing step per instance and transferId
    rc,          \* the running call of get_rabbitmq_connection: its arguments and locals
    sup,         \* position of start_consuming inside its loop, and its consumer settings
    broker,      \* broker: reachability and the declaration state of CheckFraud
    health       \* last answer of health_check and its probe connection

vars == <<pc, local, pub, counters, redis, exists, out, requeued, delivered, faults, now, stepCount,
          rc, sup, broker, health>>

\* the variables callback and get_channel leave alone
ctl == <<rc, sup, broker, health>>

Consumers == DOMAIN pc

\* no call of get_rabbitmq_connection is running
NoCall ==
    [state |-> "none", max_retries |-> 0, initial_delay |-> 0, max_delay |-> 0,
     retry_count |-> 0, delay |-> 0, sleep_time |-> 0, attempts |-> 0, waits |-> << >>]

\* start_consuming is running and consuming (the state callback is entered from)
InitSup == [state |-> "consuming", prefetch |-> 1, consumer |-> "manual_ack", failed |-> FALSE]
InitBroker == [reachable |-> TRUE, check_fraud |-> "durable"]
InitHealth == [status |-> "none", probe |-> "none"]

\* ttl: seconds each key of a transferId has left (0 for a key that is absent)
InitRedis ==
    [transfer |-> {},
     transaction |-> [t \in TransferIds |-> NoTransaction],
     result |-> [t \in TransferIds |-> NoResult],
     ttl |-> [t \in TransferIds |-> [transfer |-> 0, transaction |-> 0, result |-> 0]]]

InitCallback(C) ==
    /\ pc = [c \in C |-> "idle"]
    /\ local = [c \in C |-> InitLocal]
    /\ pub = [c \in C |-> InitPub]
    /\ counters = [c \in C |-> InitCounters]
    /\ redis = InitRedis
    /\ exists = [q \in OutQueues |-> "absent"]
    /\ out = [q \in OutQueues |-> << >>]
    /\ requeued = {}
    /\ delivered = 0
    /\ faults = [k \in FaultKinds |-> 0]
    /\ now = 0
    /\ stepCount = [c \in C |-> [t \in TransferIds |-> [o \in GhostOps |-> 0]]]

InitFor(C) ==
    /\ InitCallback(C)
    /\ rc = NoCall
    /\ sup = InitSup
    /\ broker = InitBroker
    /\ health = InitHealth

Init == InitFor({1})

\* ---- pure pieces of callback ---------------------------------------------
\* faulty variant: the dedup read never finds the marker
NeverDuplicate(store, transfer_id) == FALSE

\* redis_client.get(f"fraud:transfer:{transfer_id}") is truthy
IsDuplicate(store, transfer_id) == transfer_id \in store.transfer

\* faulty variant: the threshold amount itself is flagged
IsFraudAtThreshold(amount) == amount.val >= FraudThreshold

\* is_fraud = amount > 1000
IsFraud(amount) == amount.val > FraudThreshold

\* status = "declined" if is_fraud else "approved"
Status(is_fraud) == IF is_fraud THEN "declined" ELSE "approved"

\* faulty variant: the isDelayed flag is ignored
NeverDelayed(message) == FALSE

\* message.get("isDelayed", False), used as a truth value
IsDelayed(message) == message.isDelayed = "true"

\* time.time() and time.strftime(..., time.gmtime()) read the same clock but
\* produce values of different types
EpochTime(t) == [fmt |-> "epoch", t |-> t]
FormattedTime(t) == [fmt |-> "strftime", t |-> t]

\* faulty variant: the dedup marker is not stored
MarkerDropped(store, transfer_id) == store

\* redis_client.setex(f"fraud:transfer:{transfer_id}", 604800, "processed")
SetMarker(store, transfer_id) == [store EXCEPT !.transfer = @ \cup {transfer_id}]

\* faulty variant: a failed message is put back on CheckFraud
RequeueOnError == TRUE

\* requeue argument of ch.basic_nack
NackRequeue == FALSE

\* faulty variant: the duplicate branch does not return after its basic_ack
FallThroughAfterAck == "mark"

\* the return statement after the duplicate's basic_ack
AfterDuplicateAck == "idle"

\* faulty variant: the message is acknowledged before anything is published
AckBeforePublish == "ack"

\* the statement that follows the result cache write and the metrics
AfterAcquire == "pub_events"

\* json.dumps of a verdict dict: strings, a number and a true/false literal
Dumps(r) ==
    [transferId |-> [type |-> "string", v |-> r.transferId],
     isFraud |-> [type |-> "literal", v |-> IF r.isFraud THEN "true" ELSE "false"],
     status |-> [type |-> "string", v |-> r.status],
     amount |-> [type |-> "number", v |-> r.amount.val],
     timestamp |-> [type |-> "string", v |-> r.timestamp]]

\* json.loads of such a text
Loads(j) ==
    [transferId |-> j.transferId.v, isFraud |-> (j.isFraud.v = "true"), status |-> j.status.v,
     amount |-> Num(j.amount.v), timestamp |-> j.timestamp.v]

\* the expiry argument of setex
SetTTL(store, key, transfer_id, seconds) == [store EXCEPT !.ttl[transfer_id][key] = seconds]

TotalFaults == faults["store"] + faults["crash"] + faults["consumer"] + faults["broker"]
Total(t, o) ==
    LET RECURSIVE Sum(_)
        Sum(C) == IF C = {} THEN 0
                  ELSE LET c == CHOOSE x \in C : TRUE
                       IN stepCount[c][t][o] + Sum(C \ {c})
    IN Sum(DOMAIN stepCount)

Log(c, e) == Append(local[c].trace, e)
Count(c, t, o) == [stepCount EXCEPT ![c][t][o] = @ + 1]
Tid(c) == local[c].message.transferId

\* ---- delivery ------------------------------------------------------------
StartCallback(c, m, redelivered) ==
    /\ pc' = [pc EXCEPT ![c] = "parse"]
    /\ local' = [local EXCEPT ![c] =
                    [InitLocal EXCEPT !.message = m, !.redelivered = redelivered,
                                      !.marked_before = IsDuplicate(redis, m.transferId),
                                      !.counters0 = counters[c]]]

\* the broker hands the next CheckFraud message to an idle consumer (prefetch 1);
\* a requeued message is ahead of the messages that follow it
DeliverFrom(c, M) ==
    /\ pc[c] = "idle"
    /\ requeued = {}
    /\ delivered < MaxDeliveries
    /\ \E m \in M : StartCallback(c, m, FALSE)
    /\ delivered' = delivered + 1
    /\ UNCHANGED <<pub, counters, redis, exists, out, requeued, faults, now, stepCount>>

Deliver(c) == DeliverFrom(c, Messages)

\* the broker redelivers a message that was never acknowledged
Redeliver(c) ==
    /\ pc[c] = "idle"
    /\ delivered < MaxDeliveries
    /\ \E m \in requeued :
          /\ StartCallback(c, m, TRUE)
          /\ requeued' = requeued \ {m}
    /\ delivered' = delivered + 1
    /\ UNCHANGED <<pub, counters, redis, exists, out, faults, now, stepCount>>

\* ---- callback, lines 109-153 ---------------------------------------------
Parse(c) ==
    /\ pc[c] = "parse"
    /\ LET m == local[c].message
           bad == m.transferId = NoTransferId \/ m.amount.kind = "missing"
       IN /\ pc' = [pc EXCEPT ![c] = IF bad THEN "except" ELSE "dedup_get"]
          /\ local' = [local EXCEPT ![c].trace =
                          IF bad THEN Log(c, Ev("parse_error")) ELSE Log(c, Ev("parsed"))]
    /\ UNCHANGED <<pub, counters, redis, exists, out, requeued, delivered, faults, now, stepCount>>

DedupGet(c) ==
    /\ pc[c] = "dedup_get"
    /\ IF IsDuplicate(redis, Tid(c))
       THEN /\ counters' = [counters EXCEPT ![c].duplicate_messages = @ + 1,
                                            ![c].duplicate_fraud_checks = @ + 1]
            /\ pc' = [pc EXCEPT ![c] = "ack_dup"]
            /\ local' = [local EXCEPT ![c].trace = Log(c, Ev("dedup_hit")),
                                      ![c].nth = Total(Tid(c), "dedup_get")]
       ELSE /\ pc' = [pc EXCEPT ![c] = "mark"]
            /\ local' = [local EXCEPT ![c].trace = Log(c, Ev("dedup_miss")),
                                      ![c].nth = Total(Tid(c), "dedup_get")]
            /\ UNCHANGED counters
    /\ stepCount' = Count(c, Tid(c), "dedup_get")
    /\ UNCHANGED <<pub, redis, exists, out, requeued, delivered, faults, now>>

Mark(c) ==
    /\ pc[c] = "mark"
    /\ redis' = SetTTL(SetMarker(redis, Tid(c)), "transfer", Tid(c), MarkerTTL)
    /\ pc' = [pc EXCEPT ![c] = "audit_pre"]
    /\ local' = [local EXCEPT ![c].trace = Log(c, Ev("mark"))]
    /\ stepCount' = Count(c, Tid(c), "mark")
    /\ UNCHANGED <<pub, counters, exists, out, requeued, delivered, faults, now>>

AuditPre(c) ==
    /\ pc[c] = "audit_pre"
    /\ LET td == [NoTransaction EXCEPT !.present = TRUE, !.transferId = Tid(c),
                                       !.amount = local[c].message.amount,
                                       !.timestamp = EpochTime(now)]
       IN /\ redis' = SetTTL([redis EXCEPT !.transaction[Tid(c)] = td],
                              "transaction", Tid(c), AuditTTL)
          /\ local' = [local EXCEPT ![c].transaction_data = td,
                                    ![c].trace = Log(c, Ev("audit_pre"))]
    /\ pc' = [pc EXCEPT ![c] = "decide"]
    /\ stepCount' = Count(c, Tid(c), "audit_pre")
    /\ UNCHANGED <<pub, counters, exists, out, requeued, delivered, faults, now>>

\* amount > 1000 raises TypeError when amount is a string or null
Decide(c) ==
    /\ pc[c] = "decide"
    /\ LET amount == local[c].message.amount
       IN IF amount.kind # "num"
          THEN /\ pc' = [pc EXCEPT ![c] = "except"]
               /\ local' = [local EXCEPT ![c].trace = Log(c, Ev("type_error"))]
               /\ UNCHANGED stepCount
          ELSE /\ pc' = [pc EXCEPT ![c] = "audit_post"]
               /\ local' = [local EXCEPT
                     ![c].result = [present |-> TRUE, transferId |-> Tid(c),
                                    isFraud |-> IsFraud(amount),
                                    status |-> Status(IsFraud(amount)),
                                    amount |-> amount,
                                    timestamp |-> FormattedTime(now)],
                     ![c].trace = Log(c, Ev("decision"))]
               /\ stepCount' = Count(c, Tid(c), "decision")
    /\ UNCHANGED <<pub, counters, redis, exists, out, requeued, delivered, faults, now>>

AuditPost(c) ==
    /\ pc[c] = "audit_post"
    /\ LET td == [local[c].transaction_data EXCEPT !.hasVerdict = TRUE,
                       !.isFraud = local[c].result.isFraud,
                       !.status = local[c].result.status]
       IN /\ redis' = SetTTL([redis EXCEPT !.transaction[Tid(c)] = td],
                              "transaction", Tid(c), AuditTTL)
          /\ local' = [local EXCEPT ![c].transaction_data = td,
                                    ![c].trace = Log(c, Ev("audit_post"))]
    /\ pc' = [pc EXCEPT ![c] = "cache"]
    /\ stepCount' = Count(c, Tid(c), "audit_post")
    /\ UNCHANGED <<pub, counters, exists, out, requeued, delivered, faults, now>>

CacheResult(c) ==
    /\ pc[c] = "cache"
    /\ redis' = SetTTL([redis EXCEPT !.result[Tid(c)] = local[c].result],
                        "result", Tid(c), ResultTTL)
    /\ local' = [local EXCEPT ![c].trace = Log(c, Ev("cache"))]
    /\ pc' = [pc EXCEPT ![c] = "acquire"]
    /\ stepCount' = Count(c, Tid(c), "cache")
    /\ UNCHANGED <<pub, counters, exists, out, requeued, delivered, faults, now>>

Fault(kind) == TotalFaults < MaxFaults /\ faults' = [faults EXCEPT ![kind] = @ + 1]

StoreOps == {"dedup_get", "mark", "audit_pre", "audit_post", "cache"}

\* a redis_client call raises (store unreachable)
StoreError(c) ==
    /\ pc[c] \in StoreOps
    /\ Fault("store")
    /\ pc' = [pc EXCEPT ![c] = "except"]
    /\ local' = [local EXCEPT ![c].trace = Log(c, Ev("store_error"))]
    /\ UNCHANGED <<pub, counters, redis, exists, out, requeued, delivered, now, stepCount>>

\* ---- get_channel, lines 74-104 -------------------------------------------
DeclareOrder == <<"FraudResult", "FraudEvents", "FraudCheckResults">>

\* a channel object whose connection has gone is closed; None stays None
Stale(channel) == IF channel = "none" THEN "none" ELSE "closed"

\* queue_declare(durable=True) calls in order, stopping at the first that the
\* broker refuses (the queue exists with other properties)
RECURSIVE DeclareSeq(_, _)
DeclareSeq(ex, qs) ==
    IF qs = << >> THEN [exists |-> ex, ok |-> TRUE]
    ELSE IF ex[Head(qs)] = "nondurable" THEN [exists |-> ex, ok |-> FALSE]
    ELSE DeclareSeq([ex EXCEPT ![Head(qs)] = "durable"], Tail(qs))

Outcome(p, ex, raised, fault) == [pub |-> p, exists |-> ex, raised |-> raised, fault |-> fault]

\* faulty variant: a connection is opened on every call
AlwaysConnect(p) == TRUE

\* rabbitmq_connection is None or not rabbitmq_connection.is_open
NeedsConnection(p) == p.connection # "open"

\* every way one call of get_channel can end, from globals p and broker state ex
GetChannelOutcomes(p, ex) ==
    IF ~NeedsConnection(p)
    THEN {Outcome(p, ex, FALSE, 0)}
    ELSE LET d == DeclareSeq(ex, DeclareOrder)
             opened == [connection |-> "open", channel |-> "open", live |-> p.live + 1]
         IN \* get_rabbitmq_connection raises after its last retry
            {Outcome(p, ex, TRUE, 1)}
            \* rabbitmq_connection.channel() raises: the connection stays cached
            \cup {Outcome([opened EXCEPT !.channel = Stale(p.channel)], ex, TRUE, 1)}
            \cup (IF d.ok
                  THEN {Outcome(opened, d.exists, FALSE, 0)}
                  ELSE \* declaration error: close and recreate the channel, or fail to
                       {Outcome(opened, d.exists, FALSE, 0),
                        Outcome([opened EXCEPT !.channel = "closed"], d.exists, FALSE, 0)})

\* ---- callback, lines 155-286 ---------------------------------------------
OutMessage(r, event_type) ==
    [event_type |-> event_type, transferId |-> r.transferId, isFraud |-> r.isFraud,
     status |-> r.status, amount |-> r.amount, timestamp |-> r.timestamp]

\* basic_publish on the default exchange: an unroutable message is dropped
Enqueue(o, ex, q, msg) == IF ex[q] = "absent" THEN o ELSE [o EXCEPT ![q] = Append(@, msg)]

Acquire(c) ==
    /\ pc[c] = "acquire"
    /\ counters' = [counters EXCEPT
          ![c].messages_processed = @ + 1,
          ![c].fraud_detections = IF local[c].result.isFraud THEN @ + 1 ELSE @]
    /\ \E o \in GetChannelOutcomes(pub[c], exists) :
          /\ TotalFaults + o.fault <= MaxFaults
          /\ faults' = [faults EXCEPT !["broker"] = @ + o.fault]
          /\ pub' = [pub EXCEPT ![c] = o.pub]
          /\ exists' = o.exists
          /\ pc' = [pc EXCEPT ![c] = IF o.raised THEN "except" ELSE AfterAcquire]
          /\ local' = [local EXCEPT ![c].trace =
                          IF o.raised THEN Log(c, Ev("channel_error")) ELSE Log(c, Ev("acquired"))]
    /\ UNCHANGED <<redis, out, requeued, delivered, now, stepCount>>

\* lines 172-188: publish on the channel obtained at line 164
PubEvents(c) ==
    /\ pc[c] = "pub_events"
    /\ LET ok == pub[c].channel = "open"
           msg == OutMessage(local[c].result, "FraudCheckCompleted")
           routed == ok /\ exists["FraudEvents"] # "absent"
       IN /\ out' = IF ok THEN Enqueue(out, exists, "FraudEvents", msg) ELSE out
          /\ local' = [local EXCEPT
                ![c].trace = Log(c, PubEv("FraudEvents", ok)),
                ![c].received = IF routed THEN Append(@, [q |-> "FraudEvents", msg |-> msg])
                                ELSE @]
    /\ pc' = [pc EXCEPT ![c] = "pub_result"]
    /\ stepCount' = Count(c, Tid(c), "publish_events")
    /\ UNCHANGED <<pub, counters, redis, exists, requeued, delivered, faults, now>>

\* one try block of the form get_channel / queue_declare / basic_publish
PublishBlock(c, q, event_type, next) ==
    /\ stepCount' = Count(c, Tid(c), IF pc[c] = "pub_result" THEN "publish_result"
                                     ELSE IF pc[c] = "pub_delayed" THEN "publish_delayed"
                                     ELSE "publish_immediate")
    /\ \E o \in GetChannelOutcomes(pub[c], exists) :
          /\ TotalFaults + o.fault <= MaxFaults
          /\ faults' = [faults EXCEPT !["broker"] = @ + o.fault]
          /\ LET usable == ~o.raised /\ o.pub.channel = "open"
                 refused == usable /\ o.exists[q] = "nondurable"
                 ok == usable /\ ~refused
                 msg == OutMessage(local[c].result, event_type)
             IN /\ pub' = [pub EXCEPT ![c] =
                             IF refused THEN [o.pub EXCEPT !.channel = "closed"] ELSE o.pub]
                /\ exists' = IF ok THEN [o.exists EXCEPT ![q] = "durable"] ELSE o.exists
                /\ out' = IF ok THEN [out EXCEPT ![q] = Append(@, msg)] ELSE out
                /\ local' = [local EXCEPT
                      ![c].trace = Log(c, PubEv(q, ok)),
                      ![c].received = IF ok THEN Append(@, [q |-> q, msg |-> msg]) ELSE @]
    /\ pc' = [pc EXCEPT ![c] = next]
    /\ UNCHANGED <<counters, redis, requeued, delivered, now>>

\* lines 190-219
PubResult(c) ==
    /\ pc[c] = "pub_result"
    /\ PublishBlock(c, "FraudResult", "none",
                    IF IsDelayed(local[c].message) THEN "pub_delayed" ELSE "pub_immediate")

\* lines 222-251
PubDelayed(c) ==
    /\ pc[c] = "pub_delayed"
    /\ PublishBlock(c, "FraudCheckResults", "DelayedFraudCheckCompleted", "ack")

\* lines 252-282
PubImmediate(c) ==
    /\ pc[c] = "pub_immediate"
    /\ PublishBlock(c, "FraudResult", "none", "ack")

\* ch.basic_ack at line 122 or 285; it raises when the consuming channel is gone
Ack(c) ==
    /\ pc[c] \in {"ack", "ack_dup"}
    /\ IF local[c].ch_open
       THEN /\ pc' = [pc EXCEPT ![c] = IF pc[c] = "ack_dup" THEN AfterDuplicateAck ELSE "idle"]
            /\ local' = [local EXCEPT ![c].acks = @ + 1, ![c].outcome = "ack",
                                      ![c].trace = Log(c, Ev("ack"))]
       ELSE /\ pc' = [pc EXCEPT ![c] = "except"]
            /\ local' = [local EXCEPT ![c].trace = Log(c, Ev("ack_error"))]
    /\ UNCHANGED <<pub, counters, redis, exists, out, requeued, delivered, faults, now, stepCount>>

\* lines 288-292; when basic_nack raises too the exception leaves callback and
\* the broker keeps the message for redelivery
Except(c) ==
    /\ pc[c] = "except"
    /\ counters' = [counters EXCEPT ![c].processing_errors = @ + 1]
    /\ pc' = [pc EXCEPT ![c] = "idle"]
    /\ IF local[c].ch_open
       THEN /\ local' = [local EXCEPT ![c].nacks = @ + 1, ![c].requeue = NackRequeue,
                                      ![c].outcome = "nack",
                                      ![c].trace = Log(c, Ev("nack"))]
            /\ requeued' = IF NackRequeue THEN requeued \cup {local[c].message} ELSE requeued
       ELSE /\ local' = [local EXCEPT ![c].outcome = "aborted",
                                      ![c].trace = Log(c, Ev("nack_error"))]
            /\ requeued' = requeued \cup {local[c].message}
    /\ UNCHANGED <<pub, redis, exists, out, delivered, faults, now, stepCount>>

\* ---- environment ---------------------------------------------------------
\* the steps of callback that use the publishing connection
PublishSteps == {"acquire", "pub_events", "pub_result", "pub_delayed", "pub_immediate"}

\* the consuming channel of start_consuming is closed under a running callback;
\* callback notices at its next basic_ack or basic_nack
ConsumerChannelClosed(c) ==
    /\ pc[c] \in {"ack", "ack_dup", "except"}
    /\ local[c].ch_open
    /\ Fault("consumer")
    /\ local' = [local EXCEPT ![c].ch_open = FALSE]
    /\ UNCHANGED <<pc, pub, counters, redis, exists, out, requeued, delivered, now, stepCount>>

\* the broker drops the cached publishing connection; callback notices at its
\* next use of the connection
BrokerCloseConnection(c) ==
    /\ pc[c] \in PublishSteps
    /\ pub[c].connection = "open"
    /\ Fault("broker")
    /\ pub' = [pub EXCEPT ![c] = [connection |-> "closed", channel |-> Stale(@.channel),
                                   live |-> @.live - 1]]
    /\ UNCHANGED <<pc, local, counters, redis, exists, out, requeued, delivered, now, stepCount>>

\* the broker closes the cached publishing channel, the connection stays open
BrokerCloseChannel(c) ==
    /\ pc[c] \in PublishSteps
    /\ pub[c].channel = "open"
    /\ Fault("broker")
    /\ pub' = [pub EXCEPT ![c].channel = "closed"]
    /\ UNCHANGED <<pc, local, counters, redis, exists, out, requeued, delivered, now, stepCount>>

\* the process dies inside callback and is restarted; the unacknowledged
\* message goes back to the queue
Crash(c) ==
    /\ pc[c] # "idle"
    /\ Fault("crash")
    /\ pc' = [pc EXCEPT ![c] = "idle"]
    /\ local' = [local EXCEPT ![c] = InitLocal]
    /\ pub' = [pub EXCEPT ![c] = InitPub]
    /\ counters' = [counters EXCEPT ![c] = InitCounters]
    /\ requeued' = requeued \cup {local[c].message}
    /\ UNCHANGED <<redis, exists, out, delivered, now, stepCount>>

\* time passes between the two clock readings of one callback
Tick ==
    /\ \E c \in Consumers : pc[c] = "decide"
    /\ now + 1 \in Times
    /\ now' = now + 1
    /\ UNCHANGED <<pc, local, pub, counters, redis, exists, out, requeued, delivered, faults, stepCount>>

\* faulty variant: keys outlive their expiry
NeverExpired(remaining) == FALSE

\* a key set with setex is gone once its time is used up
Expired(remaining) == remaining <= 0

\* the store after d more seconds
Expire(store, d) ==
    LET left(t, key) == store.ttl[t][key] - d IN
    [transfer |-> {t \in store.transfer : ~Expired(left(t, "transfer"))},
     transaction |-> [t \in TransferIds |->
                        IF Expired(left(t, "transaction")) THEN NoTransaction
                        ELSE store.transaction[t]],
     result |-> [t \in TransferIds |->
                   IF Expired(left(t, "result")) THEN NoResult ELSE store.result[t]],
     ttl |-> [t \in TransferIds |->
                [key \in {"transfer", "transaction", "result"} |->
                    IF Expired(left(t, key)) THEN 0 ELSE left(t, key)]]]

\* the clock advances in steps of half the shortest expiry
ClockStep == ResultTTL \div 2

\* time passes between two deliveries
Elapse ==
    /\ \A c \in Consumers : pc[c] = "idle"
    /\ now < MaxElapses * ClockStep
    /\ now' = now + ClockStep
    /\ redis' = Expire(redis, ClockStep)
    /\ UNCHANGED <<pc, local, pub, counters, exists, out, requeued, delivered, faults, stepCount>>

\* test_transaction.py declares FraudResult without durable=True
TestDeclareFraudResult ==
    /\ exists["FraudResult"] = "absent"
    /\ exists' = [exists EXCEPT !["FraudResult"] = "nondurable"]
    /\ UNCHANGED <<pc, local, pub, counters, redis, out, requeued, delivered, faults, now, stepCount>>

Next ==
    /\ \E c \in Consumers :
          \/ Deliver(c) \/ Redeliver(c)
          \/ Parse(c) \/ DedupGet(c) \/ Mark(c) \/ AuditPre(c) \/ Decide(c)
          \/ AuditPost(c) \/ CacheResult(c) \/ StoreError(c)
          \/ Acquire(c) \/ PubEvents(c) \/ PubResult(c) \/ PubDelayed(c) \/ PubImmediate(c)
          \/ Ack(c) \/ Except(c)
          \/ ConsumerChannelClosed(c) \/ BrokerCloseConnection(c) \/ BrokerCloseChannel(c)
          \/ Crash(c)
    /\ UNCHANGED ctl

\* one instance; messages of every shape; store, broker and consumer-channel
\* failures and crashes
Spec == Init /\ [][Next]_vars

\* two instances of the service consuming CheckFraud and sharing Redis
\* the requests the two instances compete for: flagged transfers, delayed or not
Contended == {m \in Messages : m.amount = Num(FraudThreshold + 1) /\ m.isDelayed # "false"}

Init2 == InitFor({1, 2})

Next2 ==
    /\ \/ \E c \in Consumers :
          \/ DeliverFrom(c, Contended)
          \/ Parse(c) \/ DedupGet(c) \/ Mark(c) \/ AuditPre(c) \/ Decide(c)
          \/ AuditPost(c) \/ CacheResult(c)
          \/ Acquire(c) \/ PubEvents(c) \/ PubResult(c) \/ PubDelayed(c) \/ PubImmediate(c)
          \/ Ack(c) \/ Except(c)
       \/ Tick
    /\ UNCHANGED ctl

Spec2 == Init2 /\ [][Next2]_vars

\* one instance publishing to a broker on which another client has declared
\* FraudResult with other properties
NextBroker ==
    /\ \/ \E c \in Consumers :
             \/ DeliverFrom(c, Contended)
             \/ Parse(c) \/ DedupGet(c) \/ Mark(c) \/ AuditPre(c) \/ Decide(c)
             \/ AuditPost(c) \/ CacheResult(c)
             \/ Acquire(c) \/ PubEvents(c) \/ PubResult(c) \/ PubDelayed(c) \/ PubImmediate(c)
             \/ Ack(c) \/ Except(c)
             \/ BrokerCloseConnection(c) \/ BrokerCloseChannel(c)
       \/ TestDeclareFraudResult
    /\ UNCHANGED ctl

SpecBroker == Init /\ [][NextBroker]_vars

\* one instance, no failures, with hours passing between deliveries
NextTTL ==
    /\ \/ \E c \in Consumers :
             \/ DeliverFrom(c, Contended)
             \/ Parse(c) \/ DedupGet(c) \/ Mark(c) \/ AuditPre(c) \/ Decide(c)
             \/ AuditPost(c) \/ CacheResult(c)
             \/ Acquire(c) \/ PubEvents(c) \/ PubResult(c) \/ PubDelayed(c) \/ PubImmediate(c)
             \/ Ack(c) \/ Except(c)
       \/ Elapse
    /\ UNCHANGED ctl

SpecTTL == Init /\ [][NextTTL]_vars

\* ---- get_rabbitmq_connection, lines 42-68 ---------------------------------
\* durations are counted in quarters of a second, so that the jitter is exact
Min(a, b) == IF a <= b THEN a ELSE b

\* callers pass max_retries = 30 (default) or 1, initial_delay = 1 s, max_delay = 30 s
RetryBudgets == 1..MaxRetries
InitialDelays == {4, 8}
MaxDelays == {8, 10, 40}

\* random.uniform(0, 0.5), in quarters: 0, 0.25 or 0.5
JitterQuarters == {0, 1, 2}

\* faulty variant: the last failure is not noticed
NeverExhausted(retry_count, max_retries) == FALSE

\* if retry_count >= max_retries: raise
Exhausted(retry_count, max_retries) == retry_count >= max_retries

\* while retry_count < max_retries; falling out of the loop returns None
LoopHead(retry_count, max_retries) ==
    IF retry_count < max_retries THEN "attempt" ELSE "fell_through"

\* sleep_time = min(delay + jitter, max_delay), jitter = random.uniform(0, 0.5) * delay
SleepTime(delay, j, max_delay) == Min(delay + (j * delay) \div 4, max_delay)

\* faulty variant: the delay is not doubled
SameDelay(delay, max_delay) == delay

\* delay = min(delay * 2, max_delay)
NextDelay(delay, max_delay) == Min(delay * 2, max_delay)

ConnectDone == {"returned", "raised", "fell_through"}

\* lines 44-47: entry of get_rabbitmq_connection(max_retries, initial_delay, max_delay)
CallFrame(max_retries, initial_delay, max_delay) ==
    [NoCall EXCEPT !.state = LoopHead(0, max_retries), !.max_retries = max_retries,
                   !.initial_delay = initial_delay, !.max_delay = max_delay,
                   !.delay = initial_delay]

\* lines 50-56: pika.BlockingConnection(...) succeeds
ConnectOk ==
    /\ rc.state = "attempt"
    /\ broker.reachable
    /\ rc' = [rc EXCEPT !.state = "returned", !.attempts = @ + 1]
    /\ UNCHANGED <<sup, broker, health>>

\* lines 57-66: the attempt raises
ConnectFail ==
    /\ rc.state = "attempt"
    /\ ~broker.reachable
    /\ LET n == rc.retry_count + 1 IN
       IF Exhausted(n, rc.max_retries)
       THEN rc' = [rc EXCEPT !.state = "raised", !.attempts = @ + 1, !.retry_count = n]
       ELSE \E j \in JitterQuarters :
               rc' = [rc EXCEPT !.state = "sleep", !.attempts = @ + 1, !.retry_count = n,
                                !.sleep_time = SleepTime(rc.delay, j, rc.max_delay)]
    /\ UNCHANGED <<sup, broker, health>>

\* lines 67-68 and the loop test of line 47
ConnectSleep ==
    /\ rc.state = "sleep"
    /\ rc' = [rc EXCEPT !.state = LoopHead(rc.retry_count, rc.max_retries),
                        !.waits = Append(@, [delay |-> rc.delay, sleep_time |-> rc.sleep_time]),
                        !.delay = NextDelay(rc.delay, rc.max_delay)]
    /\ UNCHANGED <<sup, broker, health>>

\* ---- start_consuming, lines 311-334 ---------------------------------------
\* faulty variant: the loop ends after an error
StopAfterError == "stopped"

\* while True: after time.sleep(5) the cycle starts again at line 314
AfterSleep == "connect"

\* except Exception (lines 330-334): the channel and its consumer are gone
Failed(s) == [s EXCEPT !.state = "sleep", !.prefetch = 0, !.consumer = "none", !.failed = TRUE]

\* line 314: connection = get_rabbitmq_connection()
SupConnect ==
    /\ sup.state = "connect" /\ rc.state = "none"
    /\ \E mr \in RetryBudgets, d \in InitialDelays, md \in MaxDelays :
          rc' = CallFrame(mr, d, md)
    /\ sup' = [sup EXCEPT !.state = "connecting"]
    /\ UNCHANGED <<broker, health>>

\* the call returns the connection, or raises (returning None makes line 315 raise)
SupConnected ==
    /\ sup.state = "connecting" /\ rc.state \in ConnectDone
    /\ sup' = IF rc.state = "returned" THEN [sup EXCEPT !.state = "declare"] ELSE Failed(sup)
    /\ rc' = NoCall
    /\ UNCHANGED <<broker, health>>

\* lines 315-318: channel(), queue_declare(queue="CheckFraud", durable=True)
SupDeclare ==
    /\ sup.state = "declare"
    /\ IF broker.reachable /\ broker.check_fraud # "nondurable"
       THEN /\ sup' = [sup EXCEPT !.state = "qos"]
            /\ broker' = [broker EXCEPT !.check_fraud = "durable"]
       ELSE /\ sup' = Failed(sup)
            /\ UNCHANGED broker
    /\ UNCHANGED <<rc, health>>

\* line 322: basic_qos(prefetch_count=1)
SupQos ==
    /\ sup.state = "qos"
    /\ sup' = IF broker.reachable THEN [sup EXCEPT !.state = "consume", !.prefetch = 1]
              ELSE Failed(sup)
    /\ UNCHANGED <<rc, broker, health>>

\* lines 325-329: basic_consume(..., auto_ack=False), start_consuming()
SupConsume ==
    /\ sup.state = "consume"
    /\ sup' = IF broker.reachable
              THEN [sup EXCEPT !.state = "consuming", !.consumer = "manual_ack"]
              ELSE Failed(sup)
    /\ UNCHANGED <<rc, broker, health>>

\* the consuming connection breaks: channel.start_consuming() raises
SupBreak ==
    /\ sup.state = "consuming"
    /\ ~broker.reachable
    /\ sup' = Failed(sup)
    /\ UNCHANGED <<rc, broker, health>>

\* line 334: time.sleep(5)
SupSleep ==
    /\ sup.state = "sleep"
    /\ sup' = [sup EXCEPT !.state = AfterSleep]
    /\ UNCHANGED <<rc, broker, health>>

BrokerDown ==
    /\ broker.reachable
    /\ broker' = [broker EXCEPT !.reachable = FALSE]
    /\ UNCHANGED <<rc, sup, health>>

BrokerUp ==
    /\ ~broker.reachable
    /\ broker' = [broker EXCEPT !.reachable = TRUE]
    /\ UNCHANGED <<rc, sup, health>>

\* test_transaction.py declares CheckFraud without durable=True
TestDeclareCheckFraud ==
    /\ broker.reachable /\ broker.check_fraud = "absent"
    /\ broker' = [broker EXCEPT !.check_fraud = "nondurable"]
    /\ UNCHANGED <<rc, sup, health>>

\* the steps of the consumer thread
ConsumerThread ==
    \/ ConnectOk \/ ConnectFail \/ ConnectSleep
    \/ SupConnect \/ SupConnected \/ SupDeclare \/ SupQos \/ SupConsume \/ SupBreak \/ SupSleep

\* callback is not running
callbackVars == <<pc, local, pub, counters, redis, exists, out, requeued, delivered, faults, now, stepCount>>

\* the service starts against a fresh broker that may be unreachable
InitConnect ==
    /\ InitCallback({1})
    /\ rc = NoCall
    /\ sup = [state |-> "connect", prefetch |-> 0, consumer |-> "none", failed |-> FALSE]
    /\ broker \in [reachable : BOOLEAN, check_fraud : {"absent"}]
    /\ health = InitHealth

NextConnect ==
    /\ \/ ConsumerThread
       \/ BrokerDown \/ BrokerUp \/ TestDeclareCheckFraud
    /\ UNCHANGED callbackVars

\* the consumer thread keeps running: a blocking call returns or raises, a
\* sleep ends
SpecConnect == InitConnect /\ [][NextConnect]_vars /\ WF_vars(ConsumerThread /\ UNCHANGED callbackVars)

\* ---- health_check, lines 337-348 ------------------------------------------
\* faulty variant: the probe closes the cached publishing connection
ProbeSharesGlobals(p) == [p EXCEPT !.connection = "closed", !.channel = Stale(p.channel)]

\* what health_check does to rabbitmq_connection / rabbitmq_channel: it binds
\* the probe to a local name and assigns no global
ProbeGlobals(p) == p

\* line 341: get_rabbitmq_connection(max_retries=1, initial_delay=1) returns or raises
HealthProbe ==
    /\ health.probe # "open"
    /\ \E up \in BOOLEAN :
          health' = IF up THEN [status |-> "probing", probe |-> "open"]
                    ELSE [status |-> "unhealthy", probe |-> "none"]
    /\ pub' = [c \in Consumers |-> ProbeGlobals(pub[c])]
    /\ UNCHANGED <<pc, local, counters, redis, exists, out, requeued, delivered, faults, now,
                   stepCount, rc, sup, broker>>

\* lines 342-348: connection.close(), redis_client.ping(), the answer
HealthAnswer ==
    /\ health.probe = "open"
    /\ \E ping \in BOOLEAN :
          health' = [status |-> IF ping THEN "healthy" ELSE "unhealthy", probe |-> "closed"]
    /\ pub' = [c \in Consumers |-> ProbeGlobals(pub[c])]
    /\ UNCHANGED <<pc, local, counters, redis, exists, out, requeued, delivered, faults, now,
                   stepCount, rc, sup, broker>>

\* one instance processing messages while /health is polled
NextHealth ==
    \/ /\ \E c \in Consumers :
             \/ DeliverFrom(c, Contended)
             \/ Parse(c) \/ DedupGet(c) \/ Mark(c) \/ AuditPre(c) \/ Decide(c)
             \/ AuditPost(c) \/ CacheResult(c)
             \/ Acquire(c) \/ PubEvents(c) \/ PubResult(c) \/ PubDelayed(c) \/ PubImmediate(c)
             \/ Ack(c) \/ Except(c)
             \/ BrokerCloseConnection(c) \/ BrokerCloseChannel(c)
       /\ UNCHANGED ctl
    \/ HealthProbe
    \/ HealthAnswer

SpecHealth == Init /\ [][NextHealth]_vars

\* ==== properties ==========================================================
Ops(tr) == {tr[i].op : i \in DOMAIN tr}
HasOp(tr, op) == op \in Ops(tr)
Attempted(tr) == {tr[i].q : i \in {j \in DOMAIN tr : tr[j].op = "publish"}}

EffectOps == {"mark", "audit_pre", "decision", "audit_post", "cache", "publish"}
ErrorOps == {"parse_error", "store_error", "type_error", "channel_error", "ack_error",
             "nack", "nack_error"}
EffectCounts == GhostOps \ {"dedup_get"}

\* the queues a verdict is routed to
Routed(m) ==
    {"FraudEvents", "FraudResult"}
    \cup (IF m.isDelayed = "true" THEN {"FraudCheckResults"} ELSE {})

NoStoreOrCrashFault ==
    faults["store"] = 0 /\ faults["crash"] = 0 /\ faults["consumer"] = 0

\* C1: with one consumer and no store failure, crash or loss of the consuming
\* channel, a delivery of a transferId whose dedup check was already reached by
\* an earlier delivery performs no decision, no store write and no publish,
\* increments both duplicate counters and is acknowledged; the marker, the
\* decision, the store writes and the publishes for that transferId were each
\* performed at most once (by the first delivery).
C1_Idempotence ==
    \A c \in Consumers :
       LET l == local[c] IN
       (l.nth >= 1 /\ NoStoreOrCrashFault) =>
          /\ Ops(l.trace) \cap (EffectOps \cup {"dedup_miss", "acquired"}) = {}
          /\ l.received = << >>
          /\ counters[c].duplicate_messages = l.counters0.duplicate_messages + 1
          /\ counters[c].duplicate_fraud_checks = l.counters0.duplicate_fraud_checks + 1
          /\ counters[c].messages_processed = l.counters0.messages_processed
          /\ (pc[c] = "idle" => l.outcome = "ack" /\ l.acks = 1 /\ l.nacks = 0)
          /\ Total(l.message.transferId, "mark") = 1
          /\ \A o \in EffectCounts : Total(l.message.transferId, o) <= 1

C1_Witness ==
    \E c \in Consumers :
       /\ local[c].nth >= 1 /\ NoStoreOrCrashFault
       /\ ~local[c].redelivered
       /\ pc[c] = "idle" /\ local[c].outcome = "ack"
       /\ Total(local[c].message.transferId, "publish_events") = 1

\* C2: with one consumer, every processing step after the dedup check runs at
\* most once per transferId whatever crashes and redeliveries occur, and a
\* redelivered message whose marker is already stored takes the duplicate
\* path: no decision, no store write, no publish, and (its body carrying a
\* transferId and an amount) it is acknowledged unless the dedup read or the
\* acknowledgment itself fails.
C2_CrashConsistency ==
    /\ \A t \in TransferIds : \A o \in EffectCounts : Total(t, o) <= 1
    /\ \A c \in Consumers :
          LET l == local[c] IN
          (l.redelivered /\ l.marked_before) =>
             /\ Ops(l.trace) \cap (EffectOps \cup {"dedup_miss", "acquired"}) = {}
             /\ l.received = << >>
             /\ (pc[c] = "idle" /\ l.outcome # "none" /\ l.message.amount.kind # "missing"
                   /\ ~HasOp(l.trace, "store_error") /\ l.ch_open) => l.outcome = "ack"

C2_Witness ==
    \E c \in Consumers :
       /\ local[c].redelivered /\ local[c].marked_before
       /\ faults["crash"] >= 1
       /\ pc[c] = "idle" /\ local[c].outcome = "ack"
       /\ Total(local[c].message.transferId, "mark") = 1

StepOrder ==
    <<"parsed", "dedup_miss", "mark", "audit_pre", "decision", "audit_post", "cache",
      "acquired", "publish", "publish", "publish", "ack">>

QueueOrder(m) ==
    <<"FraudEvents", "FraudResult",
      IF m.isDelayed = "true" THEN "FraudCheckResults" ELSE "FraudResult">>

\* C3: the steps of a non-duplicate message occur in the order dedup check,
\* dedup mark, pre-decision audit write, decision, post-decision audit write,
\* result cache write, publishes, acknowledgment; every message on an output
\* queue has its dedup marker, post-decision audit record and cached result
\* stored; a non-duplicate message is acknowledged only after a publish was
\* attempted on every routed queue.
C3_StepOrder ==
    /\ \A c \in Consumers :
          LET tr == local[c].trace IN
          HasOp(tr, "dedup_miss") =>
             \A i \in DOMAIN tr :
                /\ tr[i].op \notin ErrorOps =>
                      /\ i <= Len(StepOrder)
                      /\ tr[i].op = StepOrder[i]
                      /\ tr[i].op = "publish" => tr[i].q = QueueOrder(local[c].message)[i - 8]
                /\ (tr[i].op \in ErrorOps /\ i < Len(tr)) => tr[i + 1].op \in ErrorOps
    /\ \A q \in OutQueues : \A i \in DOMAIN out[q] :
          LET t == out[q][i].transferId IN
          /\ t \in redis.transfer
          /\ redis.transaction[t].hasVerdict
          /\ redis.result[t].present
    /\ \A c \in Consumers :
          (local[c].outcome = "ack" /\ HasOp(local[c].trace, "dedup_miss")) =>
             Attempted(local[c].trace) = Routed(local[c].message)

C3_Witness ==
    \E c \in Consumers :
       /\ pc[c] = "idle" /\ local[c].outcome = "ack"
       /\ HasOp(local[c].trace, "dedup_miss")
       /\ Len(local[c].received) = 3
       /\ local[c].message.isDelayed = "false"

Queues(rcv) == {rcv[i].q : i \in DOMAIN rcv}
PublishCalls(tr) == Cardinality({i \in DOMAIN tr : tr[i].op = "publish"})

\* C4: a processed message whose publishes all put their message on a queue
\* reaches exactly FraudEvents and FraudResult when isDelayed is false or
\* absent, and FraudEvents, FraudResult and FraudCheckResults when it is true;
\* FraudCheckResults carries event_type DelayedFraudCheckCompleted and
\* FraudEvents carries FraudCheckCompleted.
C4_FanOut ==
    \A c \in Consumers :
       LET l == local[c] IN
       (l.outcome = "ack" /\ HasOp(l.trace, "dedup_miss")
          /\ Len(l.received) = PublishCalls(l.trace)) =>
          /\ Queues(l.received) =
                IF l.message.isDelayed = "true"
                THEN {"FraudEvents", "FraudResult", "FraudCheckResults"}
                ELSE {"FraudEvents", "FraudResult"}
          /\ \A i \in DOMAIN l.received :
                /\ l.received[i].q = "FraudCheckResults" =>
                      l.received[i].msg.event_type = "DelayedFraudCheckCompleted"
                /\ l.received[i].q = "FraudEvents" =>
                      l.received[i].msg.event_type = "FraudCheckCompleted"
                /\ l.received[i].msg.transferId = l.message.transferId

C4_Witness ==
    \E c \in Consumers :
       LET l == local[c] IN
       /\ pc[c] = "idle" /\ l.outcome = "ack" /\ l.message.isDelayed = "true"
       /\ Queues(l.received) = {"FraudEvents", "FraudResult", "FraudCheckResults"}
       /\ Len(out["FraudCheckResults"]) = 1

\* C5: a message whose amount is missing or not a number performs no store
\* write and no publish, and is rejected without requeue.
C5_MalformedRejected ==
    \A c \in Consumers :
       LET l == local[c] IN
       (l.message.amount.kind # "num" /\ ~l.marked_before) =>
          /\ Ops(l.trace) \cap EffectOps = {}
          /\ l.received = << >>
          /\ (pc[c] = "idle" /\ l.outcome # "none" /\ l.ch_open) =>
                (l.outcome = "nack" /\ ~l.requeue)

\* C6: once the store writes of a non-duplicate message have succeeded, broker
\* failures while publishing or while acquiring the publishing channel never
\* get the message rejected and never prevent a publish attempt on a routed
\* queue: with the consuming channel open the message is acknowledged.
C6_PublishFailureIsolation ==
    \A c \in Consumers :
       LET l == local[c] IN
       (HasOp(l.trace, "cache") /\ pc[c] = "idle" /\ l.ch_open) =>
          /\ l.outcome = "ack"
          /\ l.nacks = 0
          /\ Attempted(l.trace) = Routed(l.message)

\* C7: a delivery during which a store operation failed publishes nothing, is
\* never acknowledged, increments the error counter, and is rejected without
\* requeue (the rejection needs the consuming channel to be open still).
C7_StoreFailure ==
    \A c \in Consumers :
       LET l == local[c] IN
       HasOp(l.trace, "store_error") =>
          /\ Attempted(l.trace) = {}
          /\ l.received = << >>
          /\ l.acks = 0 /\ l.outcome # "ack"
          /\ pc[c] = "idle" =>
                counters[c].processing_errors = l.counters0.processing_errors + 1
          /\ (pc[c] = "idle" /\ l.ch_open) =>
                (l.outcome = "nack" /\ l.nacks = 1 /\ l.requeue = FALSE)

C7_Witness ==
    \E c \in Consumers :
       LET l == local[c] IN
       /\ HasOp(l.trace, "store_error") /\ HasOp(l.trace, "audit_post")
       /\ pc[c] = "idle" /\ l.outcome = "nack"
       /\ l.message.transferId \in redis.transfer

\* C8: a delivery never gets both an ack and a nack, nor two of either; a
\* callback that returns has issued exactly one of them; a nack always has
\* requeue = false.
C8_TerminalOutcome ==
    \A c \in Consumers :
       LET l == local[c] IN
       /\ l.acks + l.nacks <= 1
       /\ l.nacks = 1 => l.requeue = FALSE
       /\ (pc[c] = "idle" /\ l.trace # << >> /\ ~HasOp(l.trace, "nack_error")) =>
             /\ l.acks + l.nacks = 1
             /\ l.outcome = (IF l.acks = 1 THEN "ack" ELSE "nack")
       /\ faults["crash"] + faults["consumer"] = 0 => requeued = {}

C8_Witness ==
    \E c \in Consumers :
       LET l == local[c] IN
       /\ pc[c] = "idle" /\ l.outcome = "nack" /\ l.nacks = 1 /\ l.acks = 0
       /\ HasOp(l.trace, "type_error")

\* C9: with two instances sharing the store, each instance alone performs
\* every processing step at most once per transferId, and an instance that
\* receives a message whose marker is already stored skips it; yet both
\* instances can pass the dedup check before either has set the marker, and
\* then both decide, write and publish (C9_Race is reachable).
C9_PerInstanceOnly ==
    /\ \A c \in Consumers : \A t \in TransferIds : \A o \in EffectCounts :
          stepCount[c][t][o] <= 1
    /\ \A c \in Consumers :
          local[c].marked_before =>
             Ops(local[c].trace) \cap (EffectOps \cup {"dedup_miss"}) = {}

C9_Race ==
    \E t \in TransferIds :
       /\ Cardinality(Consumers) = 2
       /\ \A c \in Consumers : \A o \in {"mark", "decision", "audit_post", "cache", "publish_events"} :
             stepCount[c][t][o] = 1
       /\ Len(SelectSeq(out["FraudEvents"], LAMBDA m : m.transferId = t)) = 2

Right(r) ==
    /\ r.amount.kind = "num"
    /\ r.isFraud = (r.amount.val > FraudThreshold)
    /\ r.status = (IF r.isFraud THEN "declined" ELSE "approved")

\* C10: every verdict - in callback's locals, in the store and on the output
\* queues - has isFraud true exactly when amount > 1000 and status declined
\* exactly when isFraud, whatever the transferId, isDelayed or store state.
C10_Decision ==
    /\ \A c \in Consumers : local[c].result.present => Right(local[c].result)
    /\ \A q \in OutQueues : \A i \in DOMAIN out[q] : Right(out[q][i])
    /\ \A t \in TransferIds :
          /\ redis.result[t].present => Right(redis.result[t])
          /\ redis.transaction[t].hasVerdict => Right(redis.transaction[t])

C10_Witness ==
    \E i, j \in DOMAIN out["FraudResult"] :
       LET a == out["FraudResult"][i]
           b == out["FraudResult"][j]
       IN /\ a.amount.val = FraudThreshold /\ a.status = "approved" /\ ~a.isFraud
          /\ b.amount.val = FraudThreshold + 1 /\ b.status = "declined" /\ b.isFraud
          /\ a.transferId # b.transferId

\* the entry the step appended to the trace of consumer c, if any
Appended(c) ==
    IF Len(local'[c].trace) = Len(local[c].trace) + 1
    THEN local'[c].trace[Len(local'[c].trace)]
    ELSE Ev("none")

\* C11: the process never has more than one publishing connection open, and
\* the cached one is open exactly when it has one; a connection is opened only
\* when none is cached or the cached one is closed; every get_channel call that
\* succeeds (line 164, or the one ahead of a publish that goes through) leaves
\* exactly one open connection cached.
C11_ConnectionLifecycle ==
    /\ [](\A c \in Consumers :
             /\ pub[c].live <= 1
             /\ pub[c].connection = "open" <=> pub[c].live = 1
             /\ pub[c].connection = "none" => pub[c].channel = "none")
    /\ [][\A c \in Consumers :
             /\ pub'[c].live > pub[c].live => pub[c].connection # "open"
             /\ (Appended(c).op = "acquired" \/ (Appended(c).op = "publish" /\ Appended(c).ok)) =>
                   (pub'[c].connection = "open" /\ pub'[c].live = 1)]_vars

C11_Witness ==
    \E c \in Consumers :
       LET tr == local[c].trace IN
       /\ faults["broker"] >= 1
       /\ \E i, j \in DOMAIN tr :
             /\ i < j
             /\ tr[i] = PubEv("FraudEvents", FALSE)
             /\ tr[j].op = "publish" /\ tr[j].ok
       /\ pub[c].connection = "open" /\ pub[c].live = 1

\* C12: every publish that the pipeline hands to the broker goes to a queue
\* that a queue_declare(durable=True) of the service has created, also after a
\* declaration error inside get_channel.
C12_DeclaredBeforePublish ==
    \A c \in Consumers :
       LET tr == local[c].trace IN
       \A i \in DOMAIN tr :
          (tr[i].op = "publish" /\ tr[i].ok) => exists[tr[i].q] = "durable"

\* C13: a call of get_rabbitmq_connection makes at most max_retries attempts
\* and max_retries - 1 waits; it returns at its first successful attempt; when
\* max_retries attempts have failed it raises, without a wait after the last
\* failure; it never leaves the loop otherwise; and every call ends.
C13_BoundedRetry ==
    /\ [](rc.state # "none" =>
             /\ rc.attempts <= rc.max_retries
             /\ Len(rc.waits) <= rc.max_retries - 1
             /\ rc.state # "fell_through"
             /\ rc.state = "returned" =>
                   (rc.attempts = rc.retry_count + 1 /\ Len(rc.waits) = rc.retry_count)
             /\ rc.state = "raised" =>
                   /\ rc.attempts = rc.max_retries /\ rc.retry_count = rc.max_retries
                   /\ Len(rc.waits) = rc.max_retries - 1)
    /\ (rc.state \in {"attempt", "sleep"}) ~> (rc.state \in {"returned", "raised"})

C13_Witness ==
    /\ rc.state = "raised"
    /\ rc.max_retries = MaxRetries
    /\ rc.attempts = MaxRetries /\ Len(rc.waits) = MaxRetries - 1

\* C14: within one call the base delay of the first wait is initial_delay and
\* each later base delay is twice the one before, capped at max_delay; each
\* wait is the base delay plus a jitter of 0 to 50% of it, capped at max_delay;
\* each wait is longer than the one before unless that one was max_delay already.
C14_Backoff ==
    \A k \in DOMAIN rc.waits :
       LET w == rc.waits[k] IN
       /\ w.delay = IF k = 1 THEN rc.initial_delay
                    ELSE Min(2 * rc.waits[k - 1].delay, rc.max_delay)
       /\ \E jitter \in 0..(w.delay \div 2) : w.sleep_time = Min(w.delay + jitter, rc.max_delay)
       /\ w.sleep_time <= rc.max_delay
       /\ k > 1 => \/ rc.waits[k - 1].sleep_time < w.sleep_time
                   \/ rc.waits[k - 1].sleep_time = rc.max_delay

C14_Witness ==
    /\ Len(rc.waits) = 2
    /\ rc.waits[1].delay < rc.waits[1].sleep_time
    /\ rc.waits[1].sleep_time < rc.waits[2].sleep_time
    /\ rc.waits[2].sleep_time = rc.max_delay
    /\ rc.waits[2].delay < rc.max_delay

C16_CacheRoundTrip ==
    \A t \in TransferIds : \A i \in DOMAIN out["FraudResult"] :
       LET m == out["FraudResult"][i]
           age == MarkerTTL - redis.ttl[t].transfer
       IN m.transferId = t =>
             IF age < ResultTTL
             THEN /\ redis.result[t].present
                  /\ Loads(Dumps(redis.result[t])) = Loads(Dumps(m))
             ELSE /\ ~redis.result[t].present
                  /\ t \in redis.transfer
                  /\ redis.transaction[t].present /\ redis.transaction[t].hasVerdict

C16_Witness ==
    \E t \in TransferIds :
       /\ \E i \in DOMAIN out["FraudResult"] : out["FraudResult"][i].transferId = t
       /\ now >= ResultTTL
       /\ ~redis.result[t].present
       /\ t \in redis.transfer /\ redis.transaction[t].hasVerdict
       /\ redis.ttl[t].transfer = MarkerTTL - ResultTTL

\* C17: a step of health_check, whatever its answer and wherever callback
\* stands, leaves the cached publishing connection and channel as they are and
\* handles only its own probe connection; the cached connection or channel
\* changes only during the publishing section of callback.
C17_SingleWriter ==
    /\ [][health' # health => pub' = pub]_vars
    /\ [][\A c \in Consumers :
             pub'[c] # pub[c] => (health' = health /\ pc[c] \in PublishSteps)]_vars
    /\ [](health.status \in {"healthy", "unhealthy"} => health.probe # "open")

C17_Witness ==
    \E c \in Consumers :
       /\ health.status = "healthy" /\ health.probe = "closed"
       /\ pc[c] = "pub_result"
       /\ pub[c].connection = "open" /\ pub[c].channel = "open" /\ pub[c].live = 1
       /\ Len(local[c].received) = 1

\* the messages of one delivery that reached queue q
Copies(rcv, q) == Cardinality({i \in DOMAIN rcv : rcv[i].q = q})

\* C18: a processed message whose publishes all reach their queue puts exactly
\* one message on FraudEvents and exactly one on FraudResult, whatever
\* isDelayed is; with no failure at all, FraudResult holds as many messages as
\* transferIds were processed.
C18_OneCopyPerQueue ==
    /\ \A c \in Consumers :
          LET l == local[c] IN
          (pc[c] = "idle" /\ l.outcome = "ack" /\ HasOp(l.trace, "dedup_miss")
             /\ Len(l.received) = PublishCalls(l.trace)) =>
             /\ Copies(l.received, "FraudEvents") = 1
             /\ Copies(l.received, "FraudResult") = 1
    /\ (TotalFaults = 0 /\ \A c \in Consumers : pc[c] = "idle") =>
          Len(out["FraudResult"]) =
             Cardinality({t \in TransferIds : Total(t, "publish_result") >= 1})

\* the verdict fields of a message or record
Verdict(r) ==
    [transferId |-> r.transferId, isFraud |-> r.isFraud, status |-> r.status,
     amount |-> r.amount, timestamp |-> r.timestamp]

\* C19: every message published for one input message carries the transferId,
\* isFraud, status, amount and timestamp of the post-decision audit record of
\* that transferId.
C19_OneVerdict ==
    \A c \in Consumers :
       LET l == local[c] IN
       \A i \in DOMAIN l.received :
          /\ l.transaction_data.hasVerdict
          /\ Verdict(l.received[i].msg) = Verdict(l.transaction_data)

\* C20: a delivery acknowledged as a duplicate has a verdict for its
\* transferId on FraudResult; in every state, a transferId whose dedup marker
\* is stored and which no callback is processing has its verdict on FraudResult.
C20_NoLostVerdict ==
    /\ \A c \in Consumers :
          (local[c].outcome = "ack" /\ HasOp(local[c].trace, "dedup_hit")) =>
             \E i \in DOMAIN out["FraudResult"] : out["FraudResult"][i].transferId = Tid(c)
    /\ \A t \in redis.transfer :
          (\A c \in Consumers : pc[c] = "idle" \/ Tid(c) # t) =>
             \E i \in DOMAIN out["FraudResult"] : out["FraudResult"][i].transferId = t

\* the steps of callback that call get_channel (lines 164, 193, 234, 256)
CallSites == {"acquire", "pub_result", "pub_delayed", "pub_immediate"}

\* the globals after the calls of get_channel that return at line 104
Returned(p, ex) == {o.pub : o \in {r \in GetChannelOutcomes(p, ex) : ~r.raised}}

\* C21: whenever get_channel returns normally, rabbitmq_connection is open and
\* the returned rabbitmq_channel is an open channel of it, whatever happened to
\* the cached channel before the call and whatever the declarations did.
C21_UsableChannel ==
    \A c \in Consumers :
       pc[c] \in CallSites =>
          \A p \in Returned(pub[c], exists) :
             p.connection = "open" /\ p.channel = "open"

\* what the delivery handled by c has added to counter f so far
Added(c, f) == counters[c][f] - local[c].counters0[f]

\* C22: a delivery that callback has finished has added one to exactly one of
\* messages_processed, duplicate_messages and processing_errors:
\* messages_processed when it was acknowledged as new, duplicate_messages when
\* it was acknowledged as a duplicate, processing_errors when it was rejected;
\* and fraud_detections never exceeds messages_processed.
C22_CounterExclusivity ==
    \A c \in Consumers :
       LET l == local[c]
           dup == HasOp(l.trace, "dedup_hit")
       IN /\ counters[c].fraud_detections <= counters[c].messages_processed
          /\ (pc[c] = "idle" /\ l.outcome # "none") =>
                /\ Added(c, "messages_processed") + Added(c, "duplicate_messages")
                      + Added(c, "processing_errors") = 1
                /\ Added(c, "messages_processed") = 1 <=> (l.outcome = "ack" /\ ~dup)
                /\ Added(c, "duplicate_messages") = 1 <=> (l.outcome = "ack" /\ dup)
                /\ Added(c, "processing_errors") = 1 <=> l.outcome \in {"nack", "aborted"}

====
